---- MODULE Spec2Model ----
(***************************************************************************)
(* A model of src/subs.py: the subtitle acquisition pipeline.             *)
(*                                                                         *)
(* Text is a sequence of one-character strings, so that the regular        *)
(* expressions, strip(), split(), join(), lower() and the substring tests  *)
(* of the source are computed on characters.  These specifications share   *)
(* the module, each over its own variables:                                *)
(*   SpecClean  clean_subtitle_text on every cue text up to MaxTextLen     *)
(*   SpecTr     one call of translate_function, either backend             *)
(*              (FairSpecTr: the same, going on while it has a step)       *)
(*   SpecDoc    a document through process_dutch_subtitles or              *)
(*              translate_subtitle_file, block by block                    *)
(*   SpecChain  one call of check_and_extract_dutch_subtitles or of        *)
(*              extract_subtitles, tool call by tool call                  *)
(*   Spec       one run of main, --single or over a list of media files    *)
(***************************************************************************)
EXTENDS Integers, Sequences, FiniteSets, TLC

VARIABLES
  \* ---- SpecClean: one cue through the cleaner (subs.py 38-66, 521-529)
  text,        \* the cue's raw text: '\n'.join(lines[2:])
  cleaned,     \* clean_subtitle_text(text), once computed
  cue_state,   \* "raw" | "cleaned" | "dropped" | "kept"
  \* ---- SpecTr: one call of translate_function (subs.py 278-341)
  tr_text,             \* the argument of translate_function
  translated_chunks,   \* google_translate's list
  tr_result,           \* what translate_function gave its caller
  tr_response,         \* what the HTTP backend answered
  tr_failed,           \* the chunks (by number) whose translation call failed
  tr_pc,               \* "call" | "chunks" | "returned"
  have_deep_translator,\* whether "from deep_translator import ..." succeeds
  use_libre,           \* parameter of translate_subtitle_file
  \* ---- SpecDoc: one document through process_dutch_subtitles (498-541) or
  \*      translate_subtitle_file (256-377)
  content,          \* the text of the file read (line 270, 504)
  clean_hi,         \* parameter clean_hi
  doc_fn,           \* "process_dutch_subtitles" | "translate_subtitle_file"
  doc_pc,           \* "start" | "loop" | "done"
  subtitle_blocks,  \* the blocks the loop has still to visit
  out_blocks,       \* cleaned_blocks / translated_blocks
  requests,         \* the texts handed to translate_function, in order
  written,          \* the text written to the output file
  prev_written,     \* the output of the pass before, when the output is fed back
  passes,           \* how many times the document went through the function
  doc_ret,          \* what the function gave its caller
  \* ---- SpecChain: one call of check_and_extract_dutch_subtitles (68-140) or
  \*      of extract_subtitles (142-254)
  chain,            \* the call: its position, the probe's report, the files
                    \* of output_dir, the attempts made, what it returned
  \* ---- Spec: one run of main (543-725)
  args,             \* the command line: single, force, temp, libre
  selected_directories,  \* lines 627-630, once main is past them
  main_pc,          \* "start" | "check_existing" | "dutch" | "process_dutch" |
                    \* "extract" | "translate" | "copy" | "cleanup" |
                    \* "returned" | "raised"
  media_files,      \* the list of line 658 (in single mode: args.single alone)
  current,          \* the place in media_files of the file being processed
  temp_exists,      \* whether temp_dir exists
  temp_files,       \* the files of temp_dir, by base name of the media file
  adjacent,         \* {name}.nl.srt next to each media file, once the run
                    \* has its list of media files
  seen,             \* adjacent .nl.srt of each file as the run came to it
  file_outcome,     \* how each file ended
  calls,            \* the functions called, with the file they were called for
  processed_count,  \* line 675
  main_ret          \* "running" | "0" | "1" | "raised"

vClean == <<text, cleaned, cue_state>>
vTr == <<tr_text, translated_chunks, tr_result, tr_response, tr_failed, tr_pc,
         have_deep_translator, use_libre>>
vDoc == <<content, clean_hi, doc_fn, doc_pc, subtitle_blocks, out_blocks,
          requests, written, prev_written, passes, doc_ret>>
vChain == <<chain>>
vMain == <<args, selected_directories, main_pc, media_files, current, temp_exists, temp_files,
           adjacent, seen, file_outcome, calls, processed_count, main_ret>>
vars == <<vClean, vTr, vDoc, vChain, vMain>>

(***************************************************************************)
(* Bounds                                                                  *)
(***************************************************************************)
MaxTextLen == 4
MaxChunks == 2
MaxCues == 2

(***************************************************************************)
(* Characters                                                              *)
(***************************************************************************)
NL == "\n"
UpperChars == {"A", "B"}
LowerChars == {"a", "b"}
WhitespaceChars == {" ", NL}

IsAlpha(c) == c \in UpperChars \cup LowerChars
IsSpace(c) == c \in WhitespaceChars

\* str.upper() on one character
UpperOf(c) == CASE c = "a" -> "A" [] c = "b" -> "B" [] OTHER -> c

StrUpper(s) == [i \in 1..Len(s) |-> UpperOf(s[i])]

(***************************************************************************)
(* str.strip(), str.split(sep), sep.join(list)                             *)
(***************************************************************************)
RECURSIVE LStrip(_)
LStrip(s) == IF s # <<>> /\ IsSpace(Head(s)) THEN LStrip(Tail(s)) ELSE s

RECURSIVE RStrip(_)
RStrip(s) ==
  IF s # <<>> /\ IsSpace(s[Len(s)]) THEN RStrip(SubSeq(s, 1, Len(s) - 1)) ELSE s

Strip(s) == RStrip(LStrip(s))

\* the least index i >= from with s[i] = c, or 0
FirstIndex(s, c, from) ==
  LET I == {i \in from..Len(s) : s[i] = c}
  IN  IF I = {} THEN 0 ELSE CHOOSE i \in I : \A j \in I : i <= j

RECURSIVE Split(_, _)
Split(s, c) ==
  LET i == FirstIndex(s, c, 1)
  IN  IF i = 0 THEN <<s>>
      ELSE <<SubSeq(s, 1, i - 1)>> \o Split(SubSeq(s, i + 1, Len(s)), c)

RECURSIVE Join(_, _)
Join(parts, sep) ==
  IF parts = <<>> THEN <<>>
  ELSE IF Len(parts) = 1 THEN parts[1]
  ELSE parts[1] \o sep \o Join(Tail(parts), sep)

(***************************************************************************)
(* clean_subtitle_text (subs.py 38-66)                                     *)
(***************************************************************************)
\* re.sub(r'^[A-Z][A-Z\s\.]+:', '', text): ^ is the start of the string (no
\* re.MULTILINE); the greedy class run must be followed by ':' at once, since
\* ':' is not in the class.
InLabelClass(c) == c \in UpperChars \/ IsSpace(c) \/ c = "."

LabelRunEnd(s) ==
  CHOOSE j \in 1..Len(s) :
     /\ \A i \in 2..j : InLabelClass(s[i])
     /\ (j = Len(s) \/ ~InLabelClass(s[j + 1]))

StripSpeakerLabel(s) ==
  IF Len(s) >= 3 /\ s[1] \in UpperChars
  THEN LET j == LabelRunEnd(s)
       IN  IF j >= 2 /\ j < Len(s) /\ s[j + 1] = ":"
           THEN SubSeq(s, j + 2, Len(s))
           ELSE s
  ELSE s

\* re.sub(open [^close]* close, '', s): leftmost, non-overlapping matches; an
\* opener with no closer after it ends the scan (no later opener has one).
RECURSIVE RemoveSpans(_, _, _)
RemoveSpans(s, open, close) ==
  LET i == FirstIndex(s, open, 1)
      j == IF i = 0 THEN 0 ELSE FirstIndex(s, close, i + 1)
  IN  IF i = 0 \/ j = 0 THEN s
      ELSE SubSeq(s, 1, i - 1) \o RemoveSpans(SubSeq(s, j + 1, Len(s)), open, close)

\* line 59: the line is dropped when it is non-blank, equals its own upper()
\* and holds at least one letter
IsUpperLine(line) ==
  /\ Strip(line) # <<>>
  /\ Strip(line) = StrUpper(Strip(line))
  /\ \E i \in 1..Len(line) : IsAlpha(line[i])

FilterUpperLines(s) ==
  Join(SelectSeq(Split(s, NL), LAMBDA line : ~IsUpperLine(line)), <<NL>>)

\* mutant: the [...] substitution of line 47 left out
clean_subtitle_text_without_line_47(s) ==
  LET t1 == StripSpeakerLabel(s)
      t2 == RemoveSpans(t1, "(", ")")
      t4 == RemoveSpans(t2, "<", ">")
      t5 == RemoveSpans(t4, "{", "}")
      t6 == FilterUpperLines(t5)
  IN  Strip(t6)

clean_subtitle_text(s) ==
  LET t1 == StripSpeakerLabel(s)
      t2 == RemoveSpans(t1, "(", ")")
      t3 == RemoveSpans(t2, "[", "]")
      t4 == RemoveSpans(t3, "<", ">")
      t5 == RemoveSpans(t4, "{", "}")
      t6 == FilterUpperLines(t5)
  IN  Strip(t6)

\* lines 523-525 (and 357-359): "if not text.strip(): continue"
IsBlank(s) == Strip(s) = <<>>

(***************************************************************************)
(* SpecClean: every cue text up to MaxTextLen, cleaned and kept or dropped *)
(***************************************************************************)
Alphabet == {"A", "a", " ", NL, "(", ")", "[", "]", ":", "1"}

\* a few longer texts with the characters Alphabet leaves out
SampleTexts ==
  { <<"A", "B", ":", " ", "(", "a", ")", " ", "a", "b", " ", "[", "b", "]">>,
    <<"<", "b", ">", "a", "<", "b", ">">>,
    <<"{", "a", "}", "1">>,
    <<"A", ".", " ", "B", ":", "a">>,
    <<"A", " ", "B">>,
    <<"a", NL, "A", "B", ":", "b">>,
    <<"<", "a", ">", "{", "b", "}">> }

TextsUpTo(n) == UNION {[1..k -> Alphabet] : k \in 1..n}

\* what '\n'.join(lines[2:]) of a parsed block can be: the block was split at
\* every \n\s*\n and stripped, so no line of the text is blank
ValidCueText(s) == \A k \in 1..Len(Split(s, NL)) : ~IsBlank(Split(s, NL)[k])

IdleTr ==
  /\ use_libre = TRUE
  /\ have_deep_translator = TRUE
  /\ tr_text = <<>>
  /\ tr_pc = "idle"
  /\ translated_chunks = <<>>
  /\ tr_failed = {}
  /\ tr_response = [kind |-> "none", status |-> 0, body |-> "none"]
  /\ tr_result = [kind |-> "none", value |-> <<>>]

NoResult == [kind |-> "none", value |-> <<>>]

IdleDoc ==
  /\ content = <<>>
  /\ clean_hi = TRUE
  /\ doc_fn = "none"
  /\ doc_pc = "idle"
  /\ subtitle_blocks = <<>>
  /\ out_blocks = <<>>
  /\ requests = <<>>
  /\ written = <<>>
  /\ prev_written = <<>>
  /\ passes = 0
  /\ doc_ret = NoResult

IdleChain == chain = [fn |-> "none", pc |-> "idle"]

IdleMain ==
  /\ args = [single |-> "None", force |-> FALSE, temp |-> FALSE,
             libre |-> TRUE]
  /\ selected_directories = <<>>
  /\ main_pc = "idle"
  /\ media_files = <<>>
  /\ current = 0
  /\ temp_exists = FALSE
  /\ temp_files = <<>>
  /\ adjacent = <<>>
  /\ seen = <<>>
  /\ file_outcome = <<>>
  /\ calls = <<>>
  /\ processed_count = 0
  /\ main_ret = "running"

OtherThanClean == <<vTr, vDoc, vChain, vMain>>

InitClean ==
  /\ IdleTr
  /\ IdleDoc
  /\ IdleChain
  /\ IdleMain
  /\ text \in {s \in TextsUpTo(MaxTextLen) \cup SampleTexts : ValidCueText(s)}
  /\ cleaned = <<>>
  /\ cue_state = "raw"

\* line 522 (356): text = clean_subtitle_text(text)
CleanText ==
  /\ cue_state = "raw"
  /\ cleaned' = clean_subtitle_text(text)
  /\ cue_state' = "cleaned"
  /\ UNCHANGED text
  /\ UNCHANGED OtherThanClean

\* lines 524-525: the block is skipped
SkipEmptyCue ==
  /\ cue_state = "cleaned"
  /\ IsBlank(cleaned)
  /\ cue_state' = "dropped"
  /\ UNCHANGED <<text, cleaned>>
  /\ UNCHANGED OtherThanClean

\* lines 528-529: the block is appended
AppendCue ==
  /\ cue_state = "cleaned"
  /\ ~IsBlank(cleaned)
  /\ cue_state' = "kept"
  /\ UNCHANGED <<text, cleaned>>
  /\ UNCHANGED OtherThanClean

NextClean == CleanText \/ SkipEmptyCue \/ AppendCue

SpecClean == InitClean /\ [][NextClean]_vars

(***************************************************************************)
(* C8                                                                      *)
(***************************************************************************)
NoLetters(s) == \A i \in 1..Len(s) : ~IsAlpha(s[i])

\* the raw text once its (...) and [...] spans are removed
WithoutBracketed(s) == RemoveSpans(RemoveSpans(s, "(", ")"), "[", "]")

CueSettled == cue_state \in {"kept", "dropped"}

\* C8, as stated: a cue whose raw text holds no letter once its [...] and
\* (...) spans are removed is dropped by the cleaner.
C8_NoLettersDropped ==
  (CueSettled /\ NoLetters(WithoutBracketed(text))) => cue_state = "dropped"

\* C8, amended: a cue whose raw text holds nothing but whitespace once its
\* [...] and (...) spans are removed is dropped by the cleaner.
C8_BlankDropped ==
  (CueSettled /\ IsBlank(WithoutBracketed(text))) => cue_state = "dropped"

\* C8 witness: a cue made of a bracketed span has been dropped.
C8_Witness ==
  /\ cue_state = "dropped"
  /\ IsBlank(WithoutBracketed(text))
  /\ \E i \in 1..Len(text) : text[i] = "["

(***************************************************************************)
(* The translation backends (subs.py 278-341)                              *)
(***************************************************************************)
ChunkLimit == 5000

\* What the translation service answers for a text when a call succeeds: the
\* letters are replaced, everything else is kept.
TranslateChar(c) ==
  CASE c = "a" -> "e" [] c = "b" -> "d" [] c = "A" -> "E" [] c = "B" -> "D"
    [] OTHER -> c

Translated(s) == [i \in 1..Len(s) |-> TranslateChar(s[i])]

\* how a function ends: it returns a value or an exception leaves it
Return(v) == [kind |-> "return", value |-> v]
Raise == [kind |-> "raise", value |-> <<>>]

NoResponse == [kind |-> "none", status |-> 0, body |-> "none"]

\* requests.post(...) raises (timeout=10, connection refused), or answers with
\* a status and a body that is JSON with translatedText, JSON without it, or
\* no JSON at all
LibreResponses ==
  {[kind |-> "exception", status |-> 0, body |-> e] :
      e \in {"timeout", "connection_error"}}
  \cup
  {[kind |-> "http", status |-> st, body |-> b] :
      st \in {200, 403, 500}, b \in {"translatedText", "no_field", "not_json"}}

\* the call did not yield a translation
LibreFailed(response) ==
  ~(response.kind = "http" /\ response.status = 200
      /\ response.body = "translatedText")

\* mutant: an error answer gives the empty string
libre_translate_empty_on_error(txt, response) ==
  IF IsBlank(txt) THEN Return(txt)
  ELSE IF LibreFailed(response) THEN Return(<<>>)
  ELSE Return(Translated(txt))

\* lines 285-309
libre_translate(txt, response) ==
  IF IsBlank(txt) THEN Return(txt)                          \* 286-287
  ELSE IF response.kind = "exception" THEN Return(txt)      \* 297, 307-309
  ELSE IF response.status = 200
       THEN IF response.body = "not_json" THEN Return(txt)  \* 300, 307-309
            ELSE IF response.body = "translatedText"
                 THEN Return(Translated(txt))               \* 301-302
                 ELSE Return(txt)                           \* 304-305
       ELSE Return(txt)                                     \* 304-305

Min(a, b) == IF a <= b THEN a ELSE b

\* line 325: [text[i:i+5000] for i in range(0, len(text), 5000)]
NumChunks(txt) == (Len(txt) + ChunkLimit - 1) \div ChunkLimit

Chunk(txt, k) ==
  SubSeq(txt, (k - 1) * ChunkLimit + 1, Min(k * ChunkLimit, Len(txt)))

\* translator.translate(...) (lines 328, 332) is called without a timeout: it
\* returns, raises, or never comes back; requests.post (line 297) has
\* timeout=10 and raises when the time is up
TranslatorCallEnds == {"ok", "exception", "never"}

\* lines 318-335; results[k] is how the k-th translator.translate call ends
google_translate(txt, results) ==
  IF IsBlank(txt) THEN Return(txt)                          \* 319-320
  ELSE IF Len(txt) > ChunkLimit                             \* 324
       THEN IF \E k \in 1..NumChunks(txt) : results[k] = "exception"
            THEN Return(txt)                                \* 333-335
            ELSE Return(Join([k \in 1..NumChunks(txt) |->
                                 Translated(Chunk(txt, k))], <<" ">>))
       ELSE IF results[1] = "exception"
            THEN Return(txt)                                \* 333-335
            ELSE Return(Translated(txt))                    \* 332

(***************************************************************************)
(* SpecTr: one call of translate_function, step by step                    *)
(***************************************************************************)
Rep(n) == [i \in 1..n |-> "a"]

LongLens ==
  {k * ChunkLimit : k \in 1..MaxChunks}
  \cup {(k - 1) * ChunkLimit + 1 : k \in 2..MaxChunks}

TrTexts ==
  {<<>>, <<" ">>, <<"a", "b">>, <<"A", " ", "1">>, <<"b", NL, "a">>, <<"1">>}
  \cup {Rep(n) : n \in LongLens}

IdleClean ==
  /\ text = <<>>
  /\ cleaned = <<>>
  /\ cue_state = "idle"

OtherThanTr == <<vClean, vDoc, vChain, vMain>>

InitTr ==
  /\ IdleClean
  /\ IdleDoc
  /\ IdleChain
  /\ IdleMain
  /\ tr_text \in TrTexts
  /\ use_libre \in BOOLEAN
  /\ have_deep_translator \in BOOLEAN
  /\ (use_libre => have_deep_translator)
  /\ tr_pc = "call"
  /\ translated_chunks = <<>>
  /\ tr_failed = {}
  /\ tr_response = NoResponse
  /\ tr_result = [kind |-> "none", value |-> <<>>]

\* lines 279-311: translate_function = libre_translate
LibreTranslateCall ==
  /\ tr_pc = "call"
  /\ use_libre
  /\ \E response \in LibreResponses :
        /\ tr_response' = IF IsBlank(tr_text) THEN NoResponse ELSE response
        /\ tr_result' = libre_translate(tr_text, response)
  /\ tr_pc' = "returned"
  /\ UNCHANGED <<use_libre, have_deep_translator, tr_text, translated_chunks,
                 tr_failed>>
  /\ UNCHANGED OtherThanTr

\* lines 338-341: translate_function = lambda x: x
IdentityFallbackCall ==
  /\ tr_pc = "call"
  /\ ~use_libre /\ ~have_deep_translator
  /\ tr_result' = Return(tr_text)
  /\ tr_pc' = "returned"
  /\ UNCHANGED <<use_libre, have_deep_translator, tr_text, translated_chunks,
                 tr_failed, tr_response>>
  /\ UNCHANGED OtherThanTr

\* lines 319-320, 331-335: a blank text, or one call for the whole text
GoogleTranslateWhole ==
  /\ tr_pc = "call"
  /\ ~use_libre /\ have_deep_translator
  /\ IsBlank(tr_text) \/ Len(tr_text) <= ChunkLimit
  /\ \E outcome \in TranslatorCallEnds :
        IF ~IsBlank(tr_text) /\ outcome = "never"
        THEN /\ tr_pc' = "blocked"
             /\ UNCHANGED <<tr_result, tr_failed>>
        ELSE /\ tr_result' = google_translate(tr_text, <<outcome>>)
             /\ tr_failed' =
                  IF ~IsBlank(tr_text) /\ outcome = "exception" THEN {1} ELSE {}
             /\ tr_pc' = "returned"
  /\ UNCHANGED <<use_libre, have_deep_translator, tr_text, translated_chunks,
                 tr_response>>
  /\ UNCHANGED OtherThanTr

\* lines 324-326
GoogleStartChunks ==
  /\ tr_pc = "call"
  /\ ~use_libre /\ have_deep_translator
  /\ ~IsBlank(tr_text) /\ Len(tr_text) > ChunkLimit
  /\ tr_pc' = "chunks"
  /\ translated_chunks' = <<>>
  /\ UNCHANGED <<use_libre, have_deep_translator, tr_text, tr_failed,
                 tr_response, tr_result>>
  /\ UNCHANGED OtherThanTr

\* lines 327-329, and 333-335 when the call raises: the loop is left and the
\* whole text is returned
GoogleTranslateChunk ==
  /\ tr_pc = "chunks"
  /\ Len(translated_chunks) < NumChunks(tr_text)
  /\ LET k == Len(translated_chunks) + 1
     IN  \E outcome \in TranslatorCallEnds :
           IF outcome = "ok"
           THEN /\ translated_chunks' =
                     Append(translated_chunks, Translated(Chunk(tr_text, k)))
                /\ UNCHANGED <<tr_pc, tr_failed, tr_result>>
           ELSE IF outcome = "never"
           THEN /\ tr_pc' = "blocked"
                /\ UNCHANGED <<translated_chunks, tr_failed, tr_result>>
           ELSE /\ tr_failed' = {k}
                /\ tr_result' = Return(tr_text)
                /\ tr_pc' = "returned"
                /\ UNCHANGED translated_chunks
  /\ UNCHANGED <<use_libre, have_deep_translator, tr_text, tr_response>>
  /\ UNCHANGED OtherThanTr

\* line 330
GoogleJoinChunks ==
  /\ tr_pc = "chunks"
  /\ Len(translated_chunks) = NumChunks(tr_text)
  /\ tr_result' = Return(Join(translated_chunks, <<" ">>))
  /\ tr_pc' = "returned"
  /\ UNCHANGED <<use_libre, have_deep_translator, tr_text, translated_chunks,
                 tr_failed, tr_response>>
  /\ UNCHANGED OtherThanTr

NextTr ==
  \/ LibreTranslateCall
  \/ IdentityFallbackCall
  \/ GoogleTranslateWhole
  \/ GoogleStartChunks
  \/ GoogleTranslateChunk
  \/ GoogleJoinChunks

SpecTr == InitTr /\ [][NextTr]_vars

\* the call goes on as long as it has a step to take
FairSpecTr == SpecTr /\ WF_vars(NextTr)

(***************************************************************************)
(* C5                                                                      *)
(***************************************************************************)
\* a translation call was made for tr_text and failed
TranslationCallFailed ==
  \/ use_libre /\ tr_response # NoResponse /\ LibreFailed(tr_response)
  \/ ~use_libre /\ tr_failed # {}

\* C5: with either backend, a failed translation call for a non-empty text
\* returns exactly the original text, and no exception reaches the caller.
C5_FailureReturnsOriginal ==
  tr_pc = "returned" =>
     /\ tr_result.kind = "return"
     /\ (tr_text # <<>> /\ TranslationCallFailed) => tr_result.value = tr_text

\* C5 witness: the HTTP backend answered 500 and the text came back unchanged.
C5_Witness ==
  /\ tr_pc = "returned"
  /\ use_libre
  /\ tr_response.kind = "http" /\ tr_response.status = 500
  /\ ~IsBlank(tr_text)
  /\ tr_result = Return(tr_text)

(***************************************************************************)
(* C9                                                                      *)
(***************************************************************************)
AppearsIn(piece, s) ==
  \E off \in 0..(Len(s) - Len(piece)) :
     SubSeq(s, off + 1, off + Len(piece)) = piece

\* C9, as stated: when one chunk of a text longer than 5000 characters fails,
\* the chunks that were translated still appear translated in the result.
C9_OnlyFailedChunkDegraded ==
  (/\ tr_pc = "returned"
   /\ ~use_libre
   /\ Len(tr_text) > ChunkLimit
   /\ tr_failed # {})
  => \A k \in 1..Len(translated_chunks) :
        AppearsIn(translated_chunks[k], tr_result.value)

(***************************************************************************)
(* Parsing and serializing a subtitle document (subs.py 273, 344-366,      *)
(* 507-533)                                                                *)
(***************************************************************************)
\* \n\s*\n matched at the newline at i: \s* is greedy, so the match runs to the
\* last newline of the whitespace run that starts at i (i itself if none follows)
LastNewlineOfRun(s, i) ==
  LET J == {j \in i..Len(s) : s[j] = NL /\ \A k \in i..j : IsSpace(s[k])}
  IN  CHOOSE j \in J : \A k \in J : k <= j

\* re.split(r'\n\s*\n', s)
RECURSIVE SplitBlocks(_)
SplitBlocks(s) ==
  LET M == {i \in 1..Len(s) : s[i] = NL /\ LastNewlineOfRun(s, i) > i}
  IN  IF M = {} THEN <<s>>
      ELSE LET i == CHOOSE m \in M : \A n \in M : m <= n
               j == LastNewlineOfRun(s, i)
           IN  <<SubSeq(s, 1, i - 1)>> \o SplitBlocks(SubSeq(s, j + 1, Len(s)))

\* lines 345 (512): lines = block.strip().split('\n')
BlockLines(block) == Split(Strip(block), NL)

\* lines 350-352 (517-519)
ParseBlock(block) ==
  LET lines == BlockLines(block)
  IN  [index |-> lines[1],
       timestamp |-> lines[2],
       text |-> Join(SubSeq(lines, 3, Len(lines)), <<NL>>)]

\* lines 365 (528): f"{index}\n{timestamp}\n{text}"
BlockText(b) == b.index \o <<NL>> \o b.timestamp \o <<NL>> \o b.text

\* lines 370 (533): '\n\n'.join(blocks)
Serialize(blocks) ==
  Join([k \in 1..Len(blocks) |-> BlockText(blocks[k])], <<NL, NL>>)

\* mutant: the loop of lines 511-529 without the check of lines 524-525
RECURSIVE CleanBlocks_keep_empty(_)
CleanBlocks_keep_empty(blocks) ==
  IF blocks = <<>> THEN <<>>
  ELSE LET rest == CleanBlocks_keep_empty(Tail(blocks))
           b == ParseBlock(Head(blocks))
       IN  IF Len(BlockLines(Head(blocks))) < 3 THEN rest
           ELSE <<[b EXCEPT !.text = clean_subtitle_text(b.text)]>> \o rest

\* lines 511-529: the loop of process_dutch_subtitles over subtitle_blocks
RECURSIVE CleanBlocks(_)
CleanBlocks(blocks) ==
  IF blocks = <<>> THEN <<>>
  ELSE LET rest == CleanBlocks(Tail(blocks))
           b == ParseBlock(Head(blocks))
           txt == clean_subtitle_text(b.text)
       IN  IF Len(BlockLines(Head(blocks))) < 3 THEN rest       \* 513-515
           ELSE IF IsBlank(txt) THEN rest                       \* 524-525
           ELSE <<[b EXCEPT !.text = txt]>> \o rest             \* 528-529

(***************************************************************************)
(* SpecDoc: documents of up to MaxCues blocks                              *)
(***************************************************************************)
DocBodies ==
  { <<"a", "b">>,
    <<"(", "a", ")">>,
    <<"A", " ", "B">>,
    <<"a", NL, "(", "b", ")", NL, "b">>,
    <<"a", NL, "(", "b", ")", NL, "b", NL, "b">>,
    <<" ", "A", "B", ":", "a">>,
    <<"A", "B", ":", " ", "(", "a", ")", " ", "a", " ", "[", "b", "]">>,
    <<"1">> }

\* a block of the file: index line, timing line and body, or (body "none") a
\* malformed block of two lines
IndexLine(k) == <<CASE k = 1 -> "1" [] k = 2 -> "2" [] k = 3 -> "3" [] OTHER -> "4">>
TimingLine(k) == IndexLine(k) \o <<">">> \o IndexLine(k + 1)

RawBlock(k, body) ==
  IF body = <<"none">> THEN IndexLine(k) \o <<NL>> \o TimingLine(k)
  ELSE IndexLine(k) \o <<NL>> \o TimingLine(k) \o <<NL>> \o body

BlockSeparators == {<<NL, NL>>, <<NL, " ", NL, NL>>}

Documents ==
  UNION { { Join([k \in 1..n |-> RawBlock(k, bodies[k])], sep) \o <<NL>> :
              bodies \in [1..n -> DocBodies \cup {<<"none">>}],
              sep \in BlockSeparators }
          : n \in 0..MaxCues }

OtherThanDoc == <<vClean, tr_text, translated_chunks, tr_result, tr_response,
                  tr_failed, tr_pc, vChain, vMain>>

InitDoc ==
  /\ IdleClean
  /\ IdleChain
  /\ IdleMain
  /\ tr_text = <<>>
  /\ tr_pc = "idle"
  /\ translated_chunks = <<>>
  /\ tr_failed = {}
  /\ tr_response = [kind |-> "none", status |-> 0, body |-> "none"]
  /\ tr_result = NoResult
  /\ content \in Documents
  /\ clean_hi \in BOOLEAN
  /\ doc_fn \in {"process_dutch_subtitles", "translate_subtitle_file"}
  /\ use_libre \in BOOLEAN
  /\ have_deep_translator \in BOOLEAN
  /\ (doc_fn = "process_dutch_subtitles" \/ use_libre) => have_deep_translator
  /\ (doc_fn = "process_dutch_subtitles") => use_libre
  /\ doc_pc = "start"
  /\ subtitle_blocks = <<>>
  /\ out_blocks = <<>>
  /\ requests = <<>>
  /\ written = <<>>
  /\ prev_written = <<>>
  /\ passes = 0
  /\ doc_ret = NoResult

\* process_dutch_subtitles (498-541), on the text of dutch_srt.  An error of
\* open(), of the decoding or of the write leaves the function as an exception.
ProcessDutchSubtitles ==
  /\ doc_fn = "process_dutch_subtitles"
  /\ doc_pc = "start"
  /\ \E io \in {"ok", "error"} :
       IF io = "error"
       THEN /\ doc_ret' = Raise
            /\ UNCHANGED <<out_blocks, written, passes>>
       ELSE /\ out_blocks' =
                 IF clean_hi THEN CleanBlocks(SplitBlocks(Strip(content)))
                 ELSE <<>>
            /\ written' = IF clean_hi THEN Serialize(out_blocks')   \* 532-533
                          ELSE content                             \* 538
            /\ passes' = passes + 1
            /\ doc_ret' = Return(<<"target_file">>)                \* 541
  /\ doc_pc' = "done"
  /\ UNCHANGED <<content, clean_hi, doc_fn, subtitle_blocks, requests,
                 prev_written, have_deep_translator, use_libre>>
  /\ UNCHANGED OtherThanDoc

\* the file just written is given to process_dutch_subtitles again
ProcessOutputAgain ==
  /\ doc_fn = "process_dutch_subtitles"
  /\ doc_pc = "done"
  /\ doc_ret.kind = "return"
  /\ passes = 1
  /\ prev_written' = written
  /\ content' = written
  /\ out_blocks' = IF clean_hi THEN CleanBlocks(SplitBlocks(Strip(written)))
                   ELSE <<>>
  /\ written' = IF clean_hi THEN Serialize(out_blocks') ELSE written
  /\ passes' = 2
  /\ UNCHANGED <<clean_hi, doc_fn, doc_pc, subtitle_blocks, requests, doc_ret,
                 have_deep_translator, use_libre>>
  /\ UNCHANGED OtherThanDoc

\* translate_subtitle_file, lines 267-273: the file is read and split; an
\* error is caught at lines 375-377 and None is returned
ReadAndSplit ==
  /\ doc_fn = "translate_subtitle_file"
  /\ doc_pc = "start"
  /\ \E io \in {"ok", "error"} :
       IF io = "error"
       THEN /\ doc_ret' = Return(<<"None">>)
            /\ doc_pc' = "done"
            /\ UNCHANGED subtitle_blocks
       ELSE /\ subtitle_blocks' = SplitBlocks(Strip(content))
            /\ doc_pc' = "loop"
            /\ UNCHANGED doc_ret
  /\ UNCHANGED <<content, clean_hi, doc_fn, out_blocks, requests, written,
                 prev_written, passes, have_deep_translator, use_libre>>
  /\ UNCHANGED OtherThanDoc

\* the values translate_function can give for a text (lines 279-341)
TranslateFunctionResults(txt) ==
  IF use_libre
  THEN {libre_translate(txt, response) : response \in LibreResponses}
  ELSE IF have_deep_translator
       THEN {google_translate(txt, <<outcome>>) : outcome \in {"ok", "exception"}}
       ELSE {Return(txt)}

\* translate_function(txt) may never return: translator.translate is called
\* for it (lines 319-332), and that call has no timeout
TranslateFunctionCanBlock(txt) ==
  ~use_libre /\ have_deep_translator /\ ~IsBlank(txt)

\* lines 355-359 with the test of line 358 left out
SkipEmpty_never(clean, txt) == FALSE

\* lines 355-359: the block is skipped when cleaning left nothing of its text
SkipEmpty(clean, txt) == clean /\ IsBlank(txt)

\* lines 344-366: one turn of the loop
TranslateBlock ==
  /\ doc_fn = "translate_subtitle_file"
  /\ doc_pc = "loop"
  /\ subtitle_blocks # <<>>
  /\ LET block == Head(subtitle_blocks)
         b == ParseBlock(block)
         txt == IF clean_hi THEN clean_subtitle_text(b.text) ELSE b.text
         next_block == /\ subtitle_blocks' = Tail(subtitle_blocks)
                       /\ doc_pc' = doc_pc
     IN  IF Len(BlockLines(block)) < 3                          \* 346-348
         THEN next_block /\ UNCHANGED <<out_blocks, requests>>
         ELSE IF SkipEmpty(clean_hi, txt)                       \* 355-359
         THEN next_block /\ UNCHANGED <<out_blocks, requests>>
         ELSE \/ \E r \in TranslateFunctionResults(txt) :       \* 362
                   /\ requests' = Append(requests, txt)
                   /\ out_blocks' =
                        Append(out_blocks, [b EXCEPT !.text = r.value])
                   /\ next_block
              \/ /\ TranslateFunctionCanBlock(txt)
                 /\ requests' = Append(requests, txt)
                 /\ doc_pc' = "blocked"
                 /\ UNCHANGED <<out_blocks, subtitle_blocks>>
  /\ UNCHANGED <<content, clean_hi, doc_fn, written, prev_written,
                 passes, doc_ret, have_deep_translator, use_libre>>
  /\ UNCHANGED OtherThanDoc

\* lines 368-373, or 375-377 when the write fails
WriteTranslated ==
  /\ doc_fn = "translate_subtitle_file"
  /\ doc_pc = "loop"
  /\ subtitle_blocks = <<>>
  /\ \E io \in {"ok", "error"} :
       IF io = "error"
       THEN /\ doc_ret' = Return(<<"None">>)
            /\ UNCHANGED <<written, passes>>
       ELSE /\ written' = Serialize(out_blocks)
            /\ passes' = passes + 1
            /\ doc_ret' = Return(<<"output_file">>)
  /\ doc_pc' = "done"
  /\ UNCHANGED <<content, clean_hi, doc_fn, subtitle_blocks, out_blocks,
                 requests, prev_written, have_deep_translator, use_libre>>
  /\ UNCHANGED OtherThanDoc

NextDoc ==
  \/ ProcessDutchSubtitles
  \/ ProcessOutputAgain
  \/ ReadAndSplit
  \/ TranslateBlock
  \/ WriteTranslated

SpecDoc == InitDoc /\ [][NextDoc]_vars

C7_SecondPassIsIdentity ==
  (doc_fn = "process_dutch_subtitles" /\ passes = 2) => written = prev_written

(***************************************************************************)
(* What ffprobe prints (subs.py 77-81, 151-154)                            *)
(***************************************************************************)
Upper26 == <<"A", "B", "C", "D", "E", "F", "G", "H", "I", "J", "K", "L", "M", "N", "O", "P", "Q", "R", "S", "T", "U", "V", "W", "X", "Y", "Z">>
Lower26 == <<"a", "b", "c", "d", "e", "f", "g", "h", "i", "j", "k", "l", "m", "n", "o", "p", "q", "r", "s", "t", "u", "v", "w", "x", "y", "z">>

\* str.lower()
LowerOf(c) ==
  IF \E i \in 1..Len(Upper26) : Upper26[i] = c
  THEN Lower26[CHOOSE i \in 1..Len(Upper26) : Upper26[i] = c]
  ELSE c

StrLower(s) == [i \in 1..Len(s) |-> LowerOf(s[i])]

\* sub in s
Contains(sub, s) ==
  \E i \in 1..(Len(s) - Len(sub) + 1) : SubSeq(s, i, i + Len(sub) - 1) = sub

\* a subtitle stream of the report: its index, its codec_name and its tags
\* language and title (<<>> when the tag is missing)
SubtitleStream(index, codec_name, language, title) ==
  [index |-> index, codec_name |-> codec_name, language |-> language,
   title |-> title]

UntaggedStream == SubtitleStream(2, <<"s", "u", "b", "r", "i", "p">>, <<>>, <<>>)
EngStream == SubtitleStream(2, <<"s", "u", "b", "r", "i", "p">>, <<"e", "n", "g">>, <<>>)
AssStream == SubtitleStream(3, <<"a", "s", "s">>, <<>>, <<>>)
DutStream == SubtitleStream(2, <<"s", "u", "b", "r", "i", "p">>, <<"d", "u", "t">>, <<>>)
UpperNldStream == SubtitleStream(3, <<"s", "u", "b", "r", "i", "p">>, <<"N", "L", "D">>, <<>>)
SignsOnlyStream == SubtitleStream(2, <<"s", "u", "b", "r", "i", "p">>, <<"e", "n", "g">>, <<"O", "n", "l", "y">>)
ClassTitleStream == SubtitleStream(2, <<"s", "u", "b", "r", "i", "p">>, <<>>, <<"C", "l", "a", "s", "s">>)

\* result.stdout, as the list of streams it reports; "truncated" is a report
\* cut short, which json.loads rejects; "none" is the empty stdout
ProbeOutput(form, streams) == [form |-> form, streams |-> streams]

ProbeOutputs ==
  { ProbeOutput("json", <<>>),
    ProbeOutput("json", <<UntaggedStream>>),
    ProbeOutput("json", <<EngStream>>),
    ProbeOutput("json", <<AssStream>>),
    ProbeOutput("json", <<EngStream, AssStream>>),
    ProbeOutput("json", <<DutStream>>),
    ProbeOutput("json", <<EngStream, UpperNldStream>>),
    ProbeOutput("json", <<DutStream, UpperNldStream>>),
    ProbeOutput("json", <<SignsOnlyStream>>),
    ProbeOutput("json", <<ClassTitleStream>>),
    ProbeOutput("truncated", <<DutStream>>) }

DigitChars == <<"0", "1", "2", "3", "4", "5", "6", "7", "8", "9">>

Quoted(s) == <<"\"">> \o s \o <<"\"">>

RenderTags(st) ==
  IF st.language = <<>> /\ st.title = <<>> THEN <<>>
  ELSE <<",">> \o Quoted(<<"t", "a", "g", "s">>) \o <<":", "{">>
       \o (IF st.language = <<>> THEN <<>>
           ELSE Quoted(<<"l", "a", "n", "g", "u", "a", "g", "e">>) \o <<":">> \o Quoted(st.language))
       \o (IF st.language # <<>> /\ st.title # <<>> THEN <<",">> ELSE <<>>)
       \o (IF st.title = <<>> THEN <<>>
           ELSE Quoted(<<"t", "i", "t", "l", "e">>) \o <<":">> \o Quoted(st.title))
       \o <<"}">>

RenderStream(st) ==
  <<"{">> \o Quoted(<<"i", "n", "d", "e", "x">>) \o <<":", DigitChars[st.index + 1], ",">>
  \o Quoted(<<"c", "o", "d", "e", "c", "_", "n", "a", "m", "e">>) \o <<":">> \o Quoted(st.codec_name)
  \o RenderTags(st) \o <<"}">>

\* the text of result.stdout (-print_format json -show_streams)
Stdout(result) ==
  LET json == <<"{">> \o Quoted(<<"s", "t", "r", "e", "a", "m", "s">>) \o <<":", "[">>
              \o Join([k \in 1..Len(result.streams) |->
                         RenderStream(result.streams[k])], <<",">>)
              \o <<"]", "}">>
  IN  CASE result.form = "json" -> json
        [] result.form = "truncated" -> SubSeq(json, 1, Len(json) - 2)
        [] OTHER -> <<>>

\* json.loads(result.stdout) raises JSONDecodeError
JSONDecodeError(result) == result.form # "json"

\* a call of subprocess.run(["ffprobe", ...], timeout=30): it returns with a
\* report, or raises TimeoutExpired, or raises another exception (OSError:
\* no ffprobe to run)
ProbeOutcomes ==
  {[exit |-> "returned", output |-> p] : p \in ProbeOutputs}
  \cup {[exit |-> e, output |-> ProbeOutput("none", <<>>)] :
          e \in {"timeout", "oserror"}}

(***************************************************************************)
(* A call of ffmpeg and the files of output_dir                            *)
(***************************************************************************)
\* a file of output_dir: absent, empty, or with data written by the attempt
\* named; Earlier(slot) is the data that was in the file named by slot
\* ("earlier nl", "earlier eng", "earlier first") before the function was
\* called
Absent == [kind |-> "absent", by |-> "none"]
Earlier(slot) == [kind |-> "data", by |-> slot]

\* subprocess.run(["ffmpeg", ...], timeout=...): the way it ends (exit status
\* zero or not, TimeoutExpired, or OSError before anything ran) and what it
\* left at its output path; the code never looks at the exit status
FfmpegOutcomes ==
  {[exit |-> e, wrote |-> w] :
     e \in {"zero", "nonzero", "timeout"}, w \in {"nothing", "empty", "data"}}
  \cup {[exit |-> "oserror", wrote |-> "nothing"]}

NoCall == [exit |-> "none", wrote |-> "nothing"]

AfterFfmpeg(f, o, strategy) ==
  CASE o.wrote = "data" -> [kind |-> "data", by |-> strategy]
    [] o.wrote = "empty" -> [kind |-> "empty", by |-> strategy]
    [] OTHER -> f

\* os.path.exists(p) alone, without the test of the size
ExistsNonEmpty_exists_only(f) == f.kind # "absent"

\* os.path.exists(p) and os.path.getsize(p) > 0
ExistsNonEmpty(f) == f.kind = "data"

TimeoutExpired(o) == o.exit = "timeout"
OtherException(o) == o.exit = "oserror"

\* the attempt as the log keeps it: the strategy, the stream index mapped
\* (-1 when the map names no index) and whether the code took it for a success
Attempt(strategy, stream, success) ==
  [strategy |-> strategy, stream |-> stream, success |-> success]

(***************************************************************************)
(* check_and_extract_dutch_subtitles (subs.py 68-140)                      *)
(***************************************************************************)
\* line 84
dutch_identifiers == <<<<"n", "l", "d">>, <<"d", "u", "t">>, <<"n", "l">>, <<"d", "u", "t", "c", "h">>, <<"n", "e", "d", "e", "r", "l", "a", "n", "d", "s">>>>

\* lines 91-97 with the map of the tag nl put first
dutch_maps_nl_first ==
  <<"0:s:m:language:nl", "0:s:m:language:nld", "0:s:m:language:dut",
    "0:s:m:language:dutch", "0:s:m:language:nederlands">>

\* lines 91-97
dutch_maps ==
  <<"0:s:m:language:nld", "0:s:m:language:dut", "0:s:m:language:nl",
    "0:s:m:language:dutch", "0:s:m:language:nederlands">>

\* line 85
has_dutch(result) ==
  LET lower == StrLower(Stdout(result))
  IN  \E k \in 1..Len(dutch_identifiers) : Contains(dutch_identifiers[k], lower)

\* line 116: stream.get('tags', {}).get('language', '').lower() in dutch_identifiers
DutchTagged(st) ==
  \E k \in 1..Len(dutch_identifiers) : StrLower(st.language) = dutch_identifiers[k]

\* lines 115-116: the next stream at or after position from that the scan
\* tries, or 0
NextDutchStream(result, from) ==
  LET I == {k \in from..Len(result.streams) : DutchTagged(result.streams[k])}
  IN  IF I = {} THEN 0 ELSE CHOOSE k \in I : \A j \in I : k <= j

\* the state of one call of either function
ChainStart(fn, out) ==
  [fn |-> fn, pc |-> "probe", i |-> 0, probe |-> "none",
   result |-> ProbeOutput("none", <<>>), out |-> out, attempts |-> <<>>,
   last |-> NoCall, ret |-> "running"]

ReturnNone(c) == [c EXCEPT !.pc = "done", !.ret = "None"]
ReturnOutputSrt(c) == [c EXCEPT !.pc = "done", !.ret = "output_srt"]

\* lines 81-87, 130-140
DutchProbe(c, p) ==
  LET c1 == [c EXCEPT !.probe = p.exit]
  IN  CASE p.exit = "timeout" -> ReturnNone(c1)                \* 134-136
        [] p.exit = "oserror" -> ReturnNone(c1)                \* 138-140
        [] OTHER ->
             IF has_dutch(p.output)
             THEN [c1 EXCEPT !.result = p.output, !.pc = "language_map", !.i = 1]
             ELSE ReturnNone([c1 EXCEPT !.result = p.output])  \* 130-132

\* lines 112-116, 125-129: after the five maps
StartStreamScan(c) ==
  IF JSONDecodeError(c.result) THEN ReturnNone(c)              \* 125-129
  ELSE LET k == NextDutchStream(c.result, 1)
       IN  IF k = 0 THEN ReturnNone(c)                         \* 128-129
           ELSE [c EXCEPT !.pc = "stream_scan", !.i = k]

\* lines 99-109: one language map
DutchLanguageMap(c, o) ==
  LET nl == AfterFfmpeg(c.out.nl, o, dutch_maps[c.i])
      raised == TimeoutExpired(o) \/ OtherException(o)         \* 108: except:
      success == ~raised /\ ExistsNonEmpty(nl)                 \* 105
      c1 == [c EXCEPT !.out.nl = nl, !.last = o,
                      !.attempts = Append(@, Attempt(dutch_maps[c.i], -1, success))]
  IN  IF success THEN ReturnOutputSrt(c1)                      \* 107
      ELSE IF c.i < Len(dutch_maps) THEN [c1 EXCEPT !.i = c.i + 1]
      ELSE StartStreamScan(c1)

\* lines 115-124, 134-140: one stream of the scan
DutchStreamIndex(c, o) ==
  LET st == c.result.streams[c.i]
      nl == AfterFfmpeg(c.out.nl, o, "stream_index")
      raised == TimeoutExpired(o) \/ OtherException(o)
      success == ~raised /\ ExistsNonEmpty(nl)                 \* 122
      c1 == [c EXCEPT !.out.nl = nl, !.last = o,
                      !.attempts = Append(@, Attempt("stream_index", st.index, success))]
      k == NextDutchStream(c.result, c.i + 1)
  IN  IF raised THEN ReturnNone(c1)                            \* 134-140
      ELSE IF success THEN ReturnOutputSrt(c1)                 \* 124
      ELSE IF k = 0 THEN ReturnNone(c1)                        \* 128-129
      ELSE [c1 EXCEPT !.i = k]

(***************************************************************************)
(* extract_subtitles (subs.py 142-254)                                     *)
(***************************************************************************)
\* line 158
AssDetected(result) == Contains(<<"a", "s", "s">>, StrLower(Stdout(result)))

\* line 191
EnglishHinted(result) ==
  LET lower == StrLower(Stdout(result))
  IN  Contains(<<"e", "n", "g">>, lower) \/ Contains(<<"e", "n", "g", "l", "i", "s", "h">>, lower)

\* lines 160-172
AssStreamIndex(result) ==
  LET I == {k \in 1..Len(result.streams) : result.streams[k].codec_name = <<"a", "s", "s">>}
  IN  IF JSONDecodeError(result) \/ I = {} THEN 0
      ELSE result.streams[CHOOSE k \in I : \A j \in I : k <= j].index

\* lines 158-250 with the map of all subtitle streams tried before the first
\* subtitle stream
NextStrategy_generic_before_first(result, s) ==
  CASE s = "probe" /\ AssDetected(result) -> "ass"
    [] s \in {"probe", "ass"} /\ EnglishHinted(result) -> "eng"
    [] s \in {"probe", "ass", "eng"} -> "all"
    [] s = "all" -> "first"
    [] s = "first" -> "nomap"
    [] OTHER -> "done"

\* the order of lines 158-250: the strategy tried once s is over without a
\* success ("probe": once the report is in)
NextStrategy(result, s) ==
  CASE s = "probe" /\ AssDetected(result) -> "ass"             \* 158
    [] s \in {"probe", "ass"} /\ EnglishHinted(result) -> "eng"  \* 191
    [] s \in {"probe", "ass", "eng"} -> "first"                \* 207
    [] s = "first" -> "all"                                    \* 223
    [] s = "all" -> "nomap"                                    \* 236
    [] OTHER -> "done"                                         \* 249

\* the strategy is over without a success: on to the next, or line 250
NextAttempt(c, s) ==
  LET n == NextStrategy(c.result, s)
  IN  IF n = "done" THEN ReturnNone(c) ELSE [c EXCEPT !.pc = n]

\* lines 186-188 with the function giving up instead
ExtractProbeTimeout_gives_up(c) == ReturnNone(c)

\* lines 186-188: the report is replaced by one with an empty stdout
ExtractProbeTimeout(c) ==
  NextAttempt([c EXCEPT !.result = ProbeOutput("none", <<>>)], "probe")

\* lines 153-158, 186-188, 252-254
ExtractProbe(c, p) ==
  LET c1 == [c EXCEPT !.probe = p.exit]
  IN  CASE p.exit = "timeout" -> ExtractProbeTimeout(c1)
        [] p.exit = "oserror" -> ReturnNone(c1)                \* 252-254
        [] OTHER -> NextAttempt([c1 EXCEPT !.result = p.output], "probe")

\* the stream an attempt maps: line 177 for "ass", no index for the others
MappedStream(c, s) == IF s = "ass" THEN AssStreamIndex(c.result) ELSE -1

\* one attempt of lines 175-246: s is the strategy, o the way ffmpeg ends and
\* move_ok whether shutil.move (line 217) works
ExtractAttempt(c, s, o, move_ok) ==
  LET target == IF s = "first" THEN "first" ELSE "eng"         \* 208
      f == AfterFfmpeg(c.out[target], o, s)
      success == ~TimeoutExpired(o) /\ ~OtherException(o) /\ ExistsNonEmpty(f)
      moved == IF s = "first" /\ success /\ move_ok
               THEN [c.out EXCEPT !.eng = f, !.first = Absent]  \* 217
               ELSE [c.out EXCEPT ![target] = f]
      c1 == [c EXCEPT !.out = moved, !.last = o,
                      !.attempts = Append(@, Attempt(s, MappedStream(c, s), success))]
  IN  IF OtherException(o) THEN ReturnNone(c1)                 \* 252-254
      ELSE IF TimeoutExpired(o) THEN NextAttempt(c1, s)        \* 184, 203, ...
      ELSE IF success
           THEN IF s = "first" /\ ~move_ok THEN ReturnNone(c1)  \* 217, 252-254
                ELSE ReturnOutputSrt(c1)
      ELSE NextAttempt(c1, s)

(***************************************************************************)
(* SpecChain: one call of check_and_extract_dutch_subtitles or of          *)
(* extract_subtitles, one tool call per step                               *)
(***************************************************************************)
OtherThanChain == <<vClean, vTr, vDoc, vMain>>

\* output_dir is the temporary directory of the run: it may hold files of the
\* same names, left by an earlier media file of the same base name or found in
\* the directory given with --temp
InitChain ==
  /\ IdleClean
  /\ IdleTr
  /\ IdleDoc
  /\ IdleMain
  /\ chain \in
       {ChainStart("check_and_extract_dutch_subtitles",
                   [nl |-> f, eng |-> Absent, first |-> Absent]) :
          f \in {Absent, Earlier("earlier nl")}}
       \cup
       {ChainStart("extract_subtitles", [nl |-> Absent, eng |-> e, first |-> f]) :
          e \in {Absent, Earlier("earlier eng")},
          f \in {Absent, Earlier("earlier first")}}

\* line 81
ProbeForDutch ==
  /\ chain.fn = "check_and_extract_dutch_subtitles"
  /\ chain.pc = "probe"
  /\ \E p \in ProbeOutcomes : chain' = DutchProbe(chain, p)
  /\ UNCHANGED OtherThanChain

\* lines 99-109
TryLanguageMap ==
  /\ chain.pc = "language_map"
  /\ \E o \in FfmpegOutcomes : chain' = DutchLanguageMap(chain, o)
  /\ UNCHANGED OtherThanChain

\* lines 115-124
TryStreamIndex ==
  /\ chain.pc = "stream_scan"
  /\ \E o \in FfmpegOutcomes : chain' = DutchStreamIndex(chain, o)
  /\ UNCHANGED OtherThanChain

\* line 154
ProbeForExtract ==
  /\ chain.fn = "extract_subtitles"
  /\ chain.pc = "probe"
  /\ \E p \in ProbeOutcomes : chain' = ExtractProbe(chain, p)
  /\ UNCHANGED OtherThanChain

\* lines 175-185
TryAss ==
  /\ chain.pc = "ass"
  /\ \E o \in FfmpegOutcomes : chain' = ExtractAttempt(chain, "ass", o, TRUE)
  /\ UNCHANGED OtherThanChain

\* lines 195-204
TryEng ==
  /\ chain.pc = "eng"
  /\ \E o \in FfmpegOutcomes : chain' = ExtractAttempt(chain, "eng", o, TRUE)
  /\ UNCHANGED OtherThanChain

\* lines 208-220
TryFirst ==
  /\ chain.pc = "first"
  /\ \E o \in FfmpegOutcomes, move_ok \in BOOLEAN :
       chain' = ExtractAttempt(chain, "first", o, move_ok)
  /\ UNCHANGED OtherThanChain

\* lines 224-233
TryAll ==
  /\ chain.pc = "all"
  /\ \E o \in FfmpegOutcomes : chain' = ExtractAttempt(chain, "all", o, TRUE)
  /\ UNCHANGED OtherThanChain

\* lines 237-246
TryNoMap ==
  /\ chain.pc = "nomap"
  /\ \E o \in FfmpegOutcomes : chain' = ExtractAttempt(chain, "nomap", o, TRUE)
  /\ UNCHANGED OtherThanChain

NextChain ==
  \/ ProbeForDutch
  \/ TryLanguageMap
  \/ TryStreamIndex
  \/ ProbeForExtract
  \/ TryAss
  \/ TryEng
  \/ TryFirst
  \/ TryAll
  \/ TryNoMap

SpecChain == InitChain /\ [][NextChain]_vars

(***************************************************************************)
(* C2                                                                      *)
(***************************************************************************)
DeclaredOrder == <<"ass", "eng", "first", "all", "nomap">>

Rank(s) == CHOOSE k \in 1..Len(DeclaredOrder) : DeclaredOrder[k] = s

\* whether the declared conditions make the strategy one to try
Applicable(s) ==
  CASE s = "ass" -> AssDetected(chain.result)
    [] s = "eng" -> EnglishHinted(chain.result)
    [] OTHER -> TRUE

\* C2: the attempts of extract_subtitles come in the order ASS conversion,
\* English map, first stream, all streams, no map; the ASS conversion is tried
\* only if detected and the English map only if hinted; an attempt (the map of
\* all streams among them) is made only after every applicable earlier strategy
\* was attempted and failed; and nothing is attempted after a success.
C2_StrictOrder ==
  chain.fn = "extract_subtitles" =>
    LET a == chain.attempts
    IN  /\ \A j, k \in 1..Len(a) :
             j < k => Rank(a[j].strategy) < Rank(a[k].strategy)
        /\ \A k \in 1..Len(a) : Applicable(a[k].strategy)
        /\ \A k \in 1..Len(a) : \A r \in 1..(Rank(a[k].strategy) - 1) :
             Applicable(DeclaredOrder[r]) =>
               \E j \in 1..(k - 1) :
                  a[j].strategy = DeclaredOrder[r] /\ ~a[j].success
        /\ (a # <<>> /\ a[Len(a)].success) => chain.pc = "done"

C2_Witness ==
  /\ chain.fn = "extract_subtitles"
  /\ Len(chain.attempts) = Len(DeclaredOrder)
  /\ \A k \in 1..Len(DeclaredOrder) : chain.attempts[k].strategy = DeclaredOrder[k]
  /\ chain.ret = "output_srt"

(***************************************************************************)
(* C3                                                                      *)
(***************************************************************************)
LastAttempt == chain.attempts[Len(chain.attempts)]

\* C3, as stated: in extract_subtitles an attempt that ends in a timeout or a
\* non-zero exit is followed by the next strategy, and None is returned only
\* after the attempt without a map was made and failed.
C3_FailuresSwallowedUntilLast ==
  chain.fn = "extract_subtitles" =>
    /\ (/\ chain.attempts # <<>>
        /\ chain.last.exit \in {"timeout", "nonzero"}
        /\ LastAttempt.strategy # "nomap") => chain.pc # "done"
    /\ chain.ret = "None" =>
         /\ chain.attempts # <<>>
         /\ LastAttempt.strategy = "nomap"
         /\ ~LastAttempt.success

(***************************************************************************)
(* C10                                                                     *)
(***************************************************************************)
ProbeTimedOut == chain.probe = "timeout"

ProbeFoundNoStreams ==
  chain.probe = "returned" /\ chain.result = ProbeOutput("json", <<>>)

\* the attempts left to extract_subtitles when no stream is known
UntargetedOrder == <<"first", "all", "nomap">>

\* the behaviour after a probe that reported no subtitle stream
AsWithoutStreams ==
  /\ chain.ret # "raise"
  /\ chain.fn = "check_and_extract_dutch_subtitles" =>
       chain.pc = "done" /\ chain.ret = "None" /\ chain.attempts = <<>>
  /\ chain.fn = "extract_subtitles" =>
       LET a == chain.attempts
       IN  /\ Len(a) <= Len(UntargetedOrder)
           /\ \A k \in 1..Len(a) : a[k].strategy = UntargetedOrder[k]
           /\ chain.pc = "done" => a # <<>>
           /\ chain.pc # "done" => chain.pc = UntargetedOrder[Len(a) + 1]

\* C10: after a probe that timed out both functions behave as after a probe
\* that reported no subtitle stream: check_and_extract_dutch_subtitles returns
\* None without an attempt, extract_subtitles goes through the first-stream,
\* all-streams and no-map attempts, and nothing is raised.
C10_TimeoutAsNoStreams ==
  /\ ProbeTimedOut => AsWithoutStreams
  /\ ProbeFoundNoStreams => AsWithoutStreams

C10_Witness ==
  /\ ProbeTimedOut
  /\ chain.fn = "extract_subtitles"
  /\ Len(chain.attempts) = Len(UntargetedOrder)
  /\ chain.ret = "None"

(***************************************************************************)
(* The two chains as main calls them: a whole call at once                 *)
(***************************************************************************)
\* every tool call the function can make next, with every way it can end
Successors(c) ==
  CASE c.pc = "probe" /\ c.fn = "check_and_extract_dutch_subtitles" ->
         {DutchProbe(c, p) : p \in ProbeOutcomes}
    [] c.pc = "probe" /\ c.fn = "extract_subtitles" ->
         {ExtractProbe(c, p) : p \in ProbeOutcomes}
    [] c.pc = "language_map" -> {DutchLanguageMap(c, o) : o \in FfmpegOutcomes}
    [] c.pc = "stream_scan" -> {DutchStreamIndex(c, o) : o \in FfmpegOutcomes}
    [] c.pc = "first" ->
         {ExtractAttempt(c, "first", o, move_ok) :
            o \in FfmpegOutcomes, move_ok \in BOOLEAN}
    [] c.pc \in {"ass", "eng", "all", "nomap"} ->
         {ExtractAttempt(c, c.pc, o, TRUE) : o \in FfmpegOutcomes}
    [] OTHER -> {}

\* the call without its log, which no step reads
WithoutLog(c) == [c EXCEPT !.attempts = <<>>, !.last = NoCall]

RECURSIVE RunToEnd(_, _)
RunToEnd(seen_states, frontier) ==
  IF frontier = {} THEN seen_states
  ELSE LET next == {WithoutLog(d) : d \in UNION {Successors(c) : c \in frontier}}
                   \ seen_states
       IN  RunToEnd(seen_states \cup next, next)

\* every way a call of fn can end, given the files of output_dir: what it
\* returns and the files it leaves
CallResults(fn, out) ==
  LET start == ChainStart(fn, out)
  IN  {[ret |-> c.ret, out |-> c.out] :
         c \in {d \in RunToEnd({start}, {start}) : d.pc = "done"}}

\* check_and_extract_dutch_subtitles(media_file, temp_dir), by whether
\* {name}.nl.srt holds data already
DutchCallResults ==
  [nl \in BOOLEAN |->
     CallResults("check_and_extract_dutch_subtitles",
                 [nl |-> IF nl THEN Earlier("earlier nl") ELSE Absent,
                  eng |-> Absent, first |-> Absent])]

\* extract_subtitles(media_file, temp_dir), by whether {name}.eng.srt and
\* {name}.first.srt hold data already
ExtractCallResults ==
  [eng \in BOOLEAN |-> [first \in BOOLEAN |->
     CallResults("extract_subtitles",
                 [nl |-> Absent,
                  eng |-> IF eng THEN Earlier("earlier eng") ELSE Absent,
                  first |-> IF first THEN Earlier("earlier first") ELSE Absent])]]

(***************************************************************************)
(* main (subs.py 543-725)                                                  *)
(***************************************************************************)
MaxFiles == 2

\* a media file: its directory and its name without the extension
MediaFile(dir, name) == [dir |-> dir, name |-> name]

Media == {MediaFile("d1", "a"), MediaFile("d2", "a"), MediaFile("d1", "b")}

Names == {m.name : m \in Media}

\* args.directories, or what the dialog returns (<<>>: nothing)
DirectoryLists ==
  {<<>>, <<"missing">>, <<"d1">>, <<"missing", "d1">>, <<"d1", "d2">>}

\* lines 627-630: selected_directories is args.directories, or what
\* select_directories_dialog returns when no directory was given
SelectedDirectories ==
  {IF directories # <<>> THEN directories ELSE dialog :
     directories \in DirectoryLists, dialog \in DirectoryLists}

\* line 638: os.path.isdir(directory)
IsDir(directory) == directory # "missing"

\* line 565: os.path.isfile(args.single)
IsFile(path) == path # "missing"

\* lines 636-645 without the test of line 638
ValidDirectories_unchecked(directories) == directories

\* lines 636-641
ValidDirectories(directories) == SelectSeq(directories, IsDir)

\* {name}.nl.srt next to the media file: absent, there before the run, or
\* written by the run (via process_dutch_subtitles or shutil.copy2) with the
\* subtitles of the media file src
NoAdjacent == [kind |-> "none", src |-> 0, via |-> "none"]
AdjacentBefore == [kind |-> "data", src |-> 0, via |-> "before"]
AdjacentWritten(f, via) == [kind |-> "data", src |-> f.src, via |-> via]
NotSeen == [kind |-> "unseen", src |-> 0, via |-> "none"]

\* find_media_files (379-409): the video files under the directories, in any
\* order, at most MaxFiles of them
MediaLists(directories) ==
  LET found == {m \in Media : \E k \in 1..Len(directories) : directories[k] = m.dir}
  IN  {l \in UNION {[1..n -> found] : n \in 0..MaxFiles} :
         \A i, j \in 1..Len(l) : i # j => l[i] # l[j]}

\* the .nl.srt files there can be next to the media files of the list when the
\* run starts
AdjacentFiles(l) ==
  {f \in [Media -> {NoAdjacent, AdjacentBefore}] :
     \A m \in Media : (\A i \in 1..Len(l) : l[i] # m) => f[m] = NoAdjacent}

\* a file of the temporary directory, as the code can tell it: whether it
\* holds data, and the media file (by its place in media_files) the data is of
NoFile == [kind |-> "none", src |-> 0]
DataOf(i) == [kind |-> "data", src |-> i]

NoTempFiles == [n \in Names |-> [nl |-> NoFile, eng |-> NoFile, first |-> NoFile]]

\* a file of output_dir after the call for the media file i
TempAfter(f, old, i) ==
  CASE f.kind # "data" -> NoFile
    [] f.by = "earlier nl" -> old.nl
    [] f.by = "earlier eng" -> old.eng
    [] f.by = "earlier first" -> old.first
    [] OTHER -> DataOf(i)

\* lines 24-36 with the test of line 33 left out
check_existing_nl_subtitle_never(exists, force) == FALSE

\* lines 24-36
check_existing_nl_subtitle(exists, force) ==
  IF force THEN FALSE ELSE exists

IdleOthers ==
  /\ IdleClean
  /\ IdleTr
  /\ IdleDoc
  /\ IdleChain

OtherThanMain == <<vClean, vTr, vDoc, vChain>>

\* line 552: add_argument('--libre', action='store_true', default=True):
\* args.libre is True when --libre is given, and the default when it is not
ParseLibre(given) == IF given THEN TRUE ELSE TRUE

\* lines 545-562: the values parse_args can return, for every command line
CommandLines ==
  {[single |-> single, force |-> force, temp |-> temp,
    libre |-> ParseLibre(libre_given)] :
     single \in {"None", "missing", "file"}, force \in BOOLEAN,
     temp \in BOOLEAN, libre_given \in BOOLEAN}

\* lines 603, 705: use_libre=args.libre; line 279: if use_libre
UsesHttpBackend(a) == a.libre

Init ==
  /\ IdleOthers
  /\ args \in CommandLines
  /\ selected_directories = <<>>
  /\ main_pc = "start"
  /\ media_files = <<>>
  /\ current = 0
  /\ temp_exists = FALSE
  /\ temp_files = NoTempFiles
  /\ adjacent = [m \in Media |-> NotSeen]
  /\ seen = <<>>
  /\ file_outcome = <<>>
  /\ calls = <<>>
  /\ processed_count = 0
  /\ main_ret = "running"

\* line 564: if args.single
SingleMode == args.single # "None"

media_file == media_files[current]

\* the log of the calls main makes: the media file (by its place), the
\* function and what the call returned
Called(fn, ret) == Append(calls, [file |-> current, fn |-> fn, ret |-> ret])

\* lines 581, 598, 608, 687, 700, 710 with the test left out
Truthy_always(ret) == TRUE

\* lines 581, 598, 608, 687, 700, 710: if dutch_srt, if extracted_srt, if
\* translated_srt
Truthy(ret) == ret # "None"

\* lines 694, 718 left out
Counted_never(count, single) == count

\* lines 694, 718: processed_count += 1; single mode keeps no count
Counted(count, single) == IF single THEN count ELSE count + 1

\* the file at current is over: the loop goes to the next one (line 677), or
\* main goes to its clean-up (lines 617-621, 720-725)
FileOver ==
  IF ~SingleMode /\ current < Len(media_files)
  THEN current' = current + 1 /\ main_pc' = "check_existing"
  ELSE current' = current /\ main_pc' = "cleanup"

\* an exception that nothing catches leaves main
Uncaught ==
  /\ main_pc' = "raised"
  /\ main_ret' = "raised"

\* lines 564-565, 622-624
RejectSingle ==
  /\ main_pc = "start"
  /\ SingleMode
  /\ ~IsFile(args.single)
  /\ main_pc' = "returned"
  /\ main_ret' = "1"
  /\ UNCHANGED <<args, selected_directories, media_files, current, temp_exists,
                 temp_files, adjacent,
                 seen, file_outcome, calls, processed_count>>
  /\ UNCHANGED OtherThanMain

\* lines 564-571: args.single is a file
EnterSingle ==
  /\ main_pc = "start"
  /\ SingleMode
  /\ IsFile(args.single)
  /\ \E m \in Media : media_files' = <<m>>
  /\ adjacent' \in AdjacentFiles(media_files')
  /\ current' = 1
  /\ temp_exists' = TRUE
  /\ seen' = <<NotSeen>>
  /\ file_outcome' = <<"pending">>
  /\ main_pc' = "check_existing"
  /\ UNCHANGED <<args, selected_directories, temp_files, calls,
                 processed_count, main_ret>>
  /\ UNCHANGED OtherThanMain

\* lines 627-645: no directory selected, or none that is a directory
RejectDirectories ==
  /\ main_pc = "start"
  /\ ~SingleMode
  /\ selected_directories' \in SelectedDirectories
  /\ ValidDirectories(selected_directories') = <<>>
  /\ main_pc' = "returned"
  /\ main_ret' = "1"
  /\ UNCHANGED <<args, media_files, current, temp_exists, temp_files, adjacent,
                 seen, file_outcome, calls, processed_count>>
  /\ UNCHANGED OtherThanMain

\* lines 627-675: the temporary directory is made and the directories scanned
ScanDirectories ==
  /\ main_pc = "start"
  /\ ~SingleMode
  /\ selected_directories' \in SelectedDirectories
  /\ ValidDirectories(selected_directories') # <<>>
  /\ media_files' \in MediaLists(ValidDirectories(selected_directories'))
  /\ adjacent' \in AdjacentFiles(media_files')
  /\ temp_exists' = TRUE
  /\ seen' = [i \in 1..Len(media_files') |-> NotSeen]
  /\ file_outcome' = [i \in 1..Len(media_files') |-> "pending"]
  /\ IF media_files' = <<>>
     THEN /\ main_pc' = "returned"                              \* 660-671
          /\ main_ret' = "0"
          /\ current' = current
     ELSE /\ main_pc' = "check_existing"
          /\ main_ret' = main_ret
          /\ current' = 1
  /\ UNCHANGED <<args, temp_files, calls, processed_count>>
  /\ UNCHANGED OtherThanMain

\* lines 574-576, 681-682
CheckExisting ==
  /\ main_pc = "check_existing"
  /\ seen' = [seen EXCEPT ![current] = adjacent[media_file]]
  /\ IF check_existing_nl_subtitle(adjacent[media_file].kind # "none", args.force)
     THEN /\ file_outcome' = [file_outcome EXCEPT ![current] = "AlreadySatisfied"]
          /\ IF SingleMode
             THEN main_pc' = "returned" /\ main_ret' = "0" /\ current' = current  \* 576
             ELSE FileOver /\ main_ret' = main_ret                                \* 682
     ELSE /\ main_pc' = "dutch"
          /\ UNCHANGED <<file_outcome, current, main_ret>>
  /\ UNCHANGED <<args, selected_directories, media_files, temp_exists,
                 temp_files, adjacent, calls,
                 processed_count>>
  /\ UNCHANGED OtherThanMain

\* lines 579, 685: dutch_srt = check_and_extract_dutch_subtitles(...)
CheckDutch ==
  /\ main_pc = "dutch"
  /\ LET old == temp_files[media_file.name]
     IN  \E r \in DutchCallResults[old.nl.kind = "data"] :
           /\ calls' = Called("check_and_extract_dutch_subtitles", r.ret)
           /\ temp_files' = [temp_files EXCEPT ![media_file.name].nl =
                               TempAfter(r.out.nl, old, current)]
           /\ main_pc' = IF Truthy(r.ret) THEN "process_dutch" ELSE "extract"
  /\ UNCHANGED <<args, selected_directories, media_files, current, temp_exists,
                 adjacent, seen,
                 file_outcome, processed_count, main_ret>>
  /\ UNCHANGED OtherThanMain

\* lines 581-593, 687-695: process_dutch_subtitles writes next to the media
\* file, or raises (it has no handler, and neither has main)
ProcessDutch ==
  /\ main_pc = "process_dutch"
  /\ \E written_ok \in BOOLEAN :
       /\ calls' = Called("process_dutch_subtitles",
                          IF written_ok THEN "target_file" ELSE "raise")
       /\ IF written_ok
          THEN
            /\ adjacent' = [adjacent EXCEPT ![media_file] =
                  AdjacentWritten(temp_files[media_file.name].nl,
                                  "process_dutch_subtitles")]
            /\ file_outcome' = [file_outcome EXCEPT ![current] = "embedded-dutch-used"]
            /\ processed_count' = Counted(processed_count, SingleMode)
            /\ FileOver
            /\ main_ret' = main_ret
          ELSE
            /\ Uncaught
            /\ UNCHANGED <<adjacent, file_outcome, processed_count, current>>
  /\ UNCHANGED <<args, selected_directories, media_files, temp_exists,
                 temp_files, seen>>
  /\ UNCHANGED OtherThanMain

\* lines 596-598, 698-700: extracted_srt = extract_subtitles(...)
Extract ==
  /\ main_pc = "extract"
  /\ LET old == temp_files[media_file.name]
     IN  \E r \in ExtractCallResults[old.eng.kind = "data"][old.first.kind = "data"] :
           /\ calls' = Called("extract_subtitles", r.ret)
           /\ temp_files' = [temp_files EXCEPT
                  ![media_file.name].eng = TempAfter(r.out.eng, old, current),
                  ![media_file.name].first = TempAfter(r.out.first, old, current)]
           /\ IF Truthy(r.ret)
              THEN /\ main_pc' = "translate"
                   /\ UNCHANGED <<file_outcome, current>>
              ELSE /\ file_outcome' = [file_outcome EXCEPT ![current] = "extraction-failed"]
                   /\ FileOver
  /\ UNCHANGED <<args, selected_directories, media_files, temp_exists,
                 adjacent, seen,
                 processed_count, main_ret>>
  /\ UNCHANGED OtherThanMain

\* lines 600-608, 702-710: translated_srt = translate_subtitle_file(...);
\* it writes {name}.nl.srt in the temporary directory (lines 264-265, 369-370)
\* or returns None from its handler (375-377), before or after it opened the
\* output file
Translate ==
  /\ main_pc = "translate"
  /\ LET old == temp_files[media_file.name]
     IN  \E end \in {"written", "failed", "failed writing"} :
           /\ calls' = Called("translate_subtitle_file",
                              IF end = "written" THEN "output_file" ELSE "None")
           /\ temp_files' = [temp_files EXCEPT ![media_file.name].nl =
                  CASE end = "written" -> old.eng
                    [] end = "failed writing" -> NoFile
                    [] OTHER -> old.nl]
           /\ IF Truthy(IF end = "written" THEN "output_file" ELSE "None")
              THEN /\ main_pc' = "copy"
                   /\ UNCHANGED <<file_outcome, current>>
              ELSE /\ file_outcome' = [file_outcome EXCEPT ![current] = "translation-failed"]
                   /\ FileOver
  /\ UNCHANGED <<args, selected_directories, media_files, temp_exists,
                 adjacent, seen,
                 processed_count, main_ret>>
  /\ UNCHANGED OtherThanMain

\* lines 610-615, 712-718: shutil.copy2(translated_srt, target_file), which
\* may raise
CopyTranslated ==
  /\ main_pc = "copy"
  /\ \E copied \in BOOLEAN :
       IF copied
       THEN /\ adjacent' = [adjacent EXCEPT ![media_file] =
                  AdjacentWritten(temp_files[media_file.name].nl, "copy2")]
            /\ file_outcome' = [file_outcome EXCEPT ![current] = "translated"]
            /\ processed_count' = Counted(processed_count, SingleMode)
            /\ FileOver
            /\ main_ret' = main_ret
       ELSE /\ Uncaught
            /\ UNCHANGED <<adjacent, file_outcome, processed_count, current>>
  /\ UNCHANGED <<args, selected_directories, media_files, temp_exists,
                 temp_files, seen, calls>>
  /\ UNCHANGED OtherThanMain

\* lines 617-621, 720-725
CleanUp ==
  /\ main_pc = "cleanup"
  /\ IF args.temp
     THEN UNCHANGED <<temp_exists, temp_files>>
     ELSE temp_exists' = FALSE /\ temp_files' = NoTempFiles     \* shutil.rmtree
  /\ main_pc' = "returned"
  /\ main_ret' = "0"
  /\ UNCHANGED <<args, selected_directories, media_files, current, adjacent,
                 seen, file_outcome, calls,
                 processed_count>>
  /\ UNCHANGED OtherThanMain

Next ==
  \/ RejectSingle
  \/ EnterSingle
  \/ RejectDirectories
  \/ ScanDirectories
  \/ CheckExisting
  \/ CheckDutch
  \/ ProcessDutch
  \/ Extract
  \/ Translate
  \/ CopyTranslated
  \/ CleanUp

Spec == Init /\ [][Next]_vars

(***************************************************************************)
(* C1                                                                      *)
(***************************************************************************)
\* the media files (by their place) the loop has come to
Started == {i \in 1..Len(media_files) : seen[i] # NotSeen}

CallsFor(i) == {k \in 1..Len(calls) : calls[k].file = i}

\* C1: a media file that had its {name}.nl.srt next to it when the run came to
\* it, with force off, is already satisfied: no function that probes, extracts
\* or translates is called for it and the .nl.srt stays as it was.
C1_AlreadySatisfiedUntouched ==
  \A i \in Started :
     (seen[i].kind # "none" /\ ~args.force) =>
        /\ file_outcome[i] = "AlreadySatisfied"
        /\ CallsFor(i) = {}
        /\ adjacent[media_files[i]] = seen[i]

C1_Witness ==
  /\ main_pc = "returned"
  /\ ~args.force
  /\ ~SingleMode
  /\ Len(media_files) = 2
  /\ file_outcome[1] = "translated"
  /\ seen[2] = AdjacentBefore
  /\ file_outcome[2] = "AlreadySatisfied"

(***************************************************************************)
(* C4                                                                      *)
(***************************************************************************)
\* C4, as stated: in batch mode every media file of the list is started,
\* whatever happened to the files before it.
C4_EveryFileStarted ==
  (~SingleMode /\ main_pc \in {"returned", "raised"} /\ media_files # <<>>) =>
     Started = 1..Len(media_files)

(***************************************************************************)
(* C11                                                                     *)
(***************************************************************************)
\* the subtitle files the run wrote next to media files of the list
WrittenByRun ==
  {i \in 1..Len(media_files) :
     adjacent[media_files[i]].via \in {"process_dutch_subtitles", "copy2"}}

\* C11, as stated: what a batch run writes next to a media file depends on
\* that file only, not on the files before it: the subtitles written next to
\* the media file at place i are subtitles taken from that media file, also
\* when an earlier file of the list has the same base name.
C11_OnlyOwnSubtitles ==
  \A i \in WrittenByRun : adjacent[media_files[i]].src = i

(***************************************************************************)
(* C12                                                                     *)
(***************************************************************************)
\* C12, as stated: without --temp, the temporary directory main made is gone
\* when main has returned, whatever the path it returned by.
C12_TempRemovedOnEveryExit ==
  (main_pc = "returned" /\ ~args.temp) => ~temp_exists

(***************************************************************************)
(* C13                                                                     *)
(***************************************************************************)
\* the file at the path the function returns: output_srt (lines 72, 146)
ReturnedFile ==
  IF chain.fn = "check_and_extract_dutch_subtitles" THEN chain.out.nl
  ELSE chain.out.eng

\* the file the last attempt was to write: output_srt, or first_srt (line
\* 208) for the first-stream attempt, which line 217 moves to output_srt
\* after a success
AttemptFile ==
  CASE chain.fn = "check_and_extract_dutch_subtitles" -> chain.out.nl
    [] LastAttempt.strategy = "first" /\ chain.out.first # Absent -> chain.out.first
    [] OTHER -> chain.out.eng

\* C13: either function returns a path only if the file at that path exists
\* and is not empty, and an attempt that left no file or an empty file is
\* taken for a failed attempt, also when ffmpeg ended with status zero.
C13_OutputValidated ==
  /\ chain.ret = "output_srt" => ReturnedFile.kind = "data"
  /\ (chain.attempts # <<>> /\ AttemptFile.kind # "data") => ~LastAttempt.success

C13_Witness ==
  /\ chain.attempts # <<>>
  /\ chain.last = [exit |-> "zero", wrote |-> "empty"]
  /\ AttemptFile.kind = "empty"
  /\ chain.pc = "done"
  /\ chain.ret = "None"

(***************************************************************************)
(* C14                                                                     *)
(***************************************************************************)
\* the call of fn for the media file at place i returned ret
Returned(i, fn, ret) ==
  \E k \in 1..Len(calls) : calls[k] = [file |-> i, fn |-> fn, ret |-> ret]

\* how the run ended for the file at place i, by what the calls returned
EmbeddedDutchUsed(i) ==
  /\ Returned(i, "check_and_extract_dutch_subtitles", "output_srt")
  /\ Returned(i, "process_dutch_subtitles", "target_file")
ExtractionFailed(i) == Returned(i, "extract_subtitles", "None")
TranslationReturnedNone(i) == Returned(i, "translate_subtitle_file", "None")
TranslatedAndCopied(i) ==
  /\ Returned(i, "translate_subtitle_file", "output_file")
  /\ file_outcome[i] = "translated"

Pairs(doc) ==
  LET blocks == SelectSeq(SplitBlocks(Strip(doc)),
                          LAMBDA block : Len(BlockLines(block)) >= 2)
  IN  [k \in 1..Len(blocks) |->
         <<BlockLines(blocks[k])[1], BlockLines(blocks[k])[2]>>]

\* a is b with some of its elements left out
RECURSIVE IsSubsequence(_, _)
IsSubsequence(a, b) ==
  IF a = <<>> THEN TRUE
  ELSE IF b = <<>> THEN FALSE
  ELSE IF Head(a) = Head(b) THEN IsSubsequence(Tail(a), Tail(b))
  ELSE IsSubsequence(a, Tail(b))

\* C15, as stated: the (index line, timing line) pairs of the document that
\* process_dutch_subtitles or translate_subtitle_file writes are, in order,
\* pairs of the document it read: no cue is renumbered, retimed or moved.
C15_PairsPreserved ==
  (doc_pc = "done" /\ passes = 1 /\ doc_ret.kind = "return") =>
     IsSubsequence(Pairs(written), Pairs(content))

(***************************************************************************)
(* C16                                                                     *)
(***************************************************************************)
\* C16, as stated: every external call has a timeout, so that no call that
\* hangs can block: a call of translate_function, with either backend,
\* comes back in the end.
C16_EveryCallComesBack == <>(tr_pc = "returned")

(***************************************************************************)
(* C17                                                                     *)
(***************************************************************************)
\* the input main cannot work with: the path given with --single is no
\* file, or no selected directory is a directory
FatalInputError ==
  IF SingleMode THEN args.single = "missing"
  ELSE \A k \in 1..Len(selected_directories) : selected_directories[k] = "missing"

\* C17: on a fatal input error main returns 1 before it processes anything:
\* no function that probes, extracts or translates is called and no subtitle
\* file is written.
C17_FatalInputError ==
  (main_pc # "start" /\ FatalInputError) =>
     /\ main_pc = "returned"
     /\ main_ret = "1"
     /\ calls = <<>>
     /\ media_files = <<>>
     /\ \A m \in Media : adjacent[m] = NotSeen

C17_Witness ==
  /\ main_pc = "returned"
  /\ ~SingleMode
  /\ selected_directories = <<"missing">>
  /\ main_ret = "1"

(***************************************************************************)
(* C18                                                                     *)
(***************************************************************************)
\* check_and_extract_dutch_subtitles took the file to have a Dutch stream:
\* it is at its language maps, or has made an attempt
DutchDecided == chain.pc = "language_map" \/ chain.attempts # <<>>

\* a stream of the report has a language tag that, in lower case, is one of
\* nld, dut, nl, dutch, nederlands
SomeDutchLanguageTag ==
  \E k \in 1..Len(chain.result.streams) : DutchTagged(chain.result.streams[k])

\* C18, as stated: check_and_extract_dutch_subtitles decides that a Dutch
\* stream is present, and starts the extraction aimed at it, if and only if
\* a probed subtitle stream has a Dutch language tag.
C18_DutchIffLanguageTag ==
  (chain.fn = "check_and_extract_dutch_subtitles" /\ chain.probe = "returned") =>
     (DutchDecided <=> SomeDutchLanguageTag)

(***************************************************************************)
(* C19                                                                     *)
(***************************************************************************)
\* extract_subtitles goes for the ASS conversion: it is about to attempt
\* it, or has attempted it
AssAttempted ==
  \/ chain.pc = "ass"
  \/ \E k \in 1..Len(chain.attempts) : chain.attempts[k].strategy = "ass"

IsAssStream(st) == st.codec_name = <<"a", "s", "s">>

\* C19, as stated: extract_subtitles attempts the ASS conversion if and only
\* if a probed subtitle stream has the codec name "ass", and the stream the
\* attempt maps is a stream with that codec name.
C19_AssIffCodecName ==
  (chain.fn = "extract_subtitles" /\ chain.probe = "returned") =>
     /\ AssAttempted <=>
           \E k \in 1..Len(chain.result.streams) : IsAssStream(chain.result.streams[k])
     /\ \A j \in 1..Len(chain.attempts) :
           chain.attempts[j].strategy = "ass" =>
              \E k \in 1..Len(chain.result.streams) :
                 /\ IsAssStream(chain.result.streams[k])
                 /\ chain.result.streams[k].index = chain.attempts[j].stream

(***************************************************************************)
(* C20                                                                     *)
(***************************************************************************)
\* the calls main made for the media file at place i, in their order
CallsOf(i) == SelectSeq(calls, LAMBDA c : c.file = i)

FirstCallIs(cs, fn, ret) ==
  cs[1].fn = fn /\ cs[1].ret = ret

\* C20: for each media file the calls follow the declared state machine: the
\* search for embedded Dutch subtitles comes first; process_dutch_subtitles
\* is called only after it returned a file; extract_subtitles is called only
\* after it returned None; translate_subtitle_file is called only after
\* extract_subtitles returned a file.  So after a successful search for
\* Dutch subtitles neither extract_subtitles nor a translation is called.
C20_DeclaredStateMachine ==
  \A i \in 1..Len(media_files) :
     LET cs == CallsOf(i)
     IN  \A k \in 1..Len(cs) :
            /\ cs[k].fn = "check_and_extract_dutch_subtitles" => k = 1
            /\ cs[k].fn = "process_dutch_subtitles" =>
                  /\ k = 2
                  /\ FirstCallIs(cs, "check_and_extract_dutch_subtitles", "output_srt")
            /\ cs[k].fn = "extract_subtitles" =>
                  /\ k = 2
                  /\ FirstCallIs(cs, "check_and_extract_dutch_subtitles", "None")
            /\ cs[k].fn = "translate_subtitle_file" =>
                  /\ k = 3
                  /\ cs[2].fn = "extract_subtitles"
                  /\ cs[2].ret = "output_srt"

C20_Witness ==
  /\ main_pc = "returned"
  /\ Len(media_files) = 2
  /\ Len(CallsOf(1)) = 2
  /\ CallsOf(1)[2].fn = "process_dutch_subtitles"
  /\ Len(CallsOf(2)) = 3
  /\ CallsOf(2)[3] = [file |-> 2, fn |-> "translate_subtitle_file", ret |-> "output_file"]

(***************************************************************************)
(* C21                                                                     *)
(***************************************************************************)
DeclaredDutchOrder ==
  <<"0:s:m:language:nld", "0:s:m:language:dut", "0:s:m:language:nl",
    "0:s:m:language:dutch", "0:s:m:language:nederlands">>

\* every attempt of the Dutch chain was made: the five language maps and,
\* when the report could be read, the index of every stream with a Dutch
\* language tag
AllDutchAttemptsMade ==
  /\ \A k \in 1..Len(DeclaredDutchOrder) :
        \E j \in 1..Len(chain.attempts) :
           chain.attempts[j].strategy = DeclaredDutchOrder[k]
  /\ ~JSONDecodeError(chain.result) =>
        \A k \in 1..Len(chain.result.streams) :
           DutchTagged(chain.result.streams[k]) =>
              \E j \in 1..Len(chain.attempts) :
                 /\ chain.attempts[j].strategy = "stream_index"
                 /\ chain.attempts[j].stream = chain.result.streams[k].index

\* C21, as stated: in check_and_extract_dutch_subtitles a timeout or a
\* failure of one attempt is followed by the next attempt, and the function
\* gives up only after the five language maps and the index of every stream
\* with a Dutch tag were attempted.
C21_DutchFailuresSwallowed ==
  (/\ chain.fn = "check_and_extract_dutch_subtitles"
   /\ chain.attempts # <<>>
   /\ chain.ret = "None") => AllDutchAttemptsMade

LeftBeforeTheCall(f) ==
  f.by \in {"earlier nl", "earlier eng", "earlier first"}

\* C23, as stated: extract_subtitles takes an attempt for a success only if
\* the ffmpeg run of that attempt wrote the output: a file left by an
\* earlier attempt of the call does not make a later attempt, whose run
\* wrote nothing, a success.
C23_OwnOutputOnly ==
  (/\ chain.fn = "extract_subtitles"
   /\ chain.attempts # <<>>
   /\ LastAttempt.success
   /\ ~LeftBeforeTheCall(AttemptFile)) =>
      /\ chain.last.wrote = "data"
      /\ AttemptFile.by = LastAttempt.strategy

(***************************************************************************)
(* C24                                                                     *)
(***************************************************************************)
\* the bodies the HTTP backend posted: libre_translate returns a blank text
\* at once (lines 286-287) and posts every other text it is given (297)
HttpRequests == SelectSeq(requests, LAMBDA t : ~IsBlank(t))

\* the bodies of the cues of the document read that are to be in the
\* output, in their order: blocks of three lines or more, cleaned when
\* cleaning is on, without those cleaning emptied
EmittedBodies ==
  LET blocks == SelectSeq(SplitBlocks(Strip(content)),
                          LAMBDA block : Len(BlockLines(block)) >= 3)
      bodies == [k \in 1..Len(blocks) |->
                   IF clean_hi THEN clean_subtitle_text(ParseBlock(blocks[k]).text)
                   ELSE ParseBlock(blocks[k]).text]
  IN  SelectSeq(bodies, LAMBDA t : ~(clean_hi /\ IsBlank(t)))

\* C24: with the HTTP backend translate_subtitle_file posts one request for
\* each cue it emits, in the order of the cues, with the body of that cue
\* alone; a block of fewer than three lines and a cue that cleaning emptied
\* get no request.
C24_OneRequestPerCue ==
  (doc_fn = "translate_subtitle_file" /\ use_libre) =>
     /\ Len(HttpRequests) = Len(out_blocks)
     /\ \A k \in 1..Len(out_blocks) :
           out_blocks[k].text \in {HttpRequests[k], Translated(HttpRequests[k])}
     /\ (doc_pc = "done" /\ passes = 1) => HttpRequests = EmittedBodies

C24_Witness ==
  /\ doc_fn = "translate_subtitle_file"
  /\ use_libre
  /\ clean_hi
  /\ doc_pc = "done"
  /\ passes = 1
  /\ Len(SplitBlocks(Strip(content))) = 2
  /\ Len(BlockLines(SplitBlocks(Strip(content))[1])) >= 3
  /\ IsBlank(clean_subtitle_text(ParseBlock(SplitBlocks(Strip(content))[1]).text))
  /\ Len(HttpRequests) = 1

(***************************************************************************)
(* C25                                                                     *)
(***************************************************************************)
\* the line starts with a speaker label: an upper-case letter, upper-case
\* letters, spaces or periods after it, and a colon
StartsWithLabel(line) ==
  \E p \in 2..Len(line) :
     /\ line[p] = ":"
     /\ line[1] \in UpperChars
     /\ \A q \in 2..(p - 1) : line[q] \in UpperChars \cup {" ", "."}

\* C25, as stated: the cleaner strips a speaker label at the start of every
\* line of the cue text, whatever the length of the label: no line that
\* starts with a label is in the cleaned text as it was.
C25_LabelStrippedOnEveryLine ==
  CueSettled =>
     \A k \in 1..Len(Split(text, NL)) :
        StartsWithLabel(Split(text, NL)[k]) =>
           \A j \in 1..Len(Split(cleaned, NL)) :
              Split(cleaned, NL)[j] # Split(text, NL)[k]

(***************************************************************************)
(* C26                                                                     *)
(***************************************************************************)
\* the media files of the list next to which the run wrote a .nl.srt
WrittenFiles == {media_files[i] : i \in WrittenByRun}

C27_BothBackendsSelectable ==
  \E a \in CommandLines :
     /\ a.single = args.single
     /\ a.force = args.force
     /\ a.temp = args.temp
     /\ UsesHttpBackend(a) # UsesHttpBackend(args)

====
